---- MODULE Spec2Model ----
(***************************************************************************)
(* Comment-triggered notification fan-out of smart-notifications:          *)
(* apps/notifications/services.py (dispatch_comment_notification), the     *)
(* channel senders of apps/notifications/notifications_tasks.py, the       *)
(* per-request transaction of settings/base.py (ATOMIC_REQUESTS) and the   *)
(* exception handler of apps/core/custom_exception_handler.py.             *)
(***************************************************************************)
EXTENDS Integers, Sequences, FiniteSets, TLC

\* ---------------------------------------------------------------- bounds
\* users of the system (accounts.User rows)
Users == {1, 2, 3}
\* primary keys of the comments posted in one behaviour
CommentIds == {1}
\* the users that post the comment: Init ranges over every assignment of
\* subscriptions and preferences to the users, so any author is a renaming
\* of this one
Authors == {1}
\* faulting runs of channel senders in one behaviour: runs made while the
\* comment request is still open, and runs that raise after their get()
MaxFaults == 4
\* email and SMS channels enabled over all preference records
MaxChannels == 2

\* login requests whose transactions are open at the same time
MaxOpenLogins == 2

\* max_retries of the @shared_task decorators
MaxRetries == 3

\* the statements of one alert task that raise for an outside cause, in the
\* order they raise
AlertFaultIds == {1}
\* the login requests of one behaviour, in the order they arrive
LoginIds == {1, 2, 3}
\* the users that log in
LoginUsers == {1, 2}
\* REMOTE_ADDR of a login: an address never contains an underscore
Ips == {<<"1">>, <<"2">>}
\* HTTP_USER_AGENT of a login: any text, an underscore included
Agents == {<<"m">>, <<"_">>}

\* ------------------------------------------------- values of a task-id column
\* email_task_id / sms_task_id is a nullable CharField.  The values the code
\* can put there are kept apart by a tag: NULL, the literal "pending", the id
\* of a Celery task (a uuid, here the index of the task in the broker) and the
\* text of an integer.
Null == <<"null", 0>>
Pending == <<"pending", 0>>
TaskUuid(t) == <<"uuid", t>>
IntText(n) == <<"int", n>>

\* a lookup that finds no task and yields None
AsyncResultTaskId_None(id) == Null

\* AsyncResult(id).task_id: the AsyncResult is built around the id it is
\* given and task_id reads that id back; written to the CharField an integer
\* becomes its text.
AsyncResultTaskId(id) == IntText(id)

VARIABLES
    subscriptions,   \* thread_subscription: users subscribed to the thread
    preferences,     \* notification_preference: user -> [in_app, email, sms]
    comments,        \* committed comment rows
    notifications,   \* committed notification rows: id -> row
    request,         \* the comment request in flight and its open transaction
    nextId,          \* next primary key of the notification table
    tasks,           \* broker: sequence of channel sender tasks
    faults,          \* faulting sender runs so far
    inserted,        \* history: every row a bulk_create inserted, id -> row
    log,             \* history: comment id -> how its fan-out went
    first_login,     \* user.first_login: user -> flag, as committed
    known_device,    \* committed known-device rows, in insertion order
    logins,          \* login requests: each one's position and local values
    alerts,          \* broker: handle_unknown_device_async tasks enqueued
    alert_runs,      \* each enqueued alert task's state and local values
    threads,         \* committed thread rows: their primary keys
    thread_subscription, \* committed thread_subscription rows, as inserted
    subscribes,      \* thread-create and subscribe requests, and positions
    markread,        \* mark-read requests with their responses
    last_patch       \* the preference update request served last

\* the tables and the broker queue of apps/accounts
accountVars == <<first_login, known_device, logins, alerts, alert_runs>>

\* the thread tables and the requests of the notification API
apiVars == <<threads, thread_subscription, subscribes, markread, last_patch>>

vars == <<subscriptions, preferences, comments, notifications, request,
          nextId, tasks, faults, inserted, log, accountVars, apiVars>>

\* models.py 37-41: the three flags of a NotificationPreference.  The records
\* the model starts from: the registration default, everything off, and each
\* way of enabling the two asynchronous channels.
PrefChoices ==
    {[in_app |-> TRUE, email |-> FALSE, sms |-> FALSE],
     [in_app |-> FALSE, email |-> FALSE, sms |-> FALSE],
     [in_app |-> TRUE, email |-> TRUE, sms |-> FALSE],
     [in_app |-> FALSE, email |-> FALSE, sms |-> TRUE],
     [in_app |-> FALSE, email |-> TRUE, sms |-> TRUE]}

Idle == [pc |-> "idle", comment |-> 0, author |-> 0, rows |-> <<>>,
         built |-> <<>>, created |-> <<>>, i |-> 0,
         email_tasks |-> <<>>, sms_tasks |-> <<>>]

\* number of email and SMS channels a preference table enables
RECURSIVE ChannelsOf(_, _)
ChannelsOf(prefs, S) ==
    IF S = {} THEN 0
    ELSE LET u == CHOOSE x \in S : TRUE
         IN (IF prefs[u].email THEN 1 ELSE 0) + (IF prefs[u].sms THEN 1 ELSE 0)
            + ChannelsOf(prefs, S \ {u})

\* accounts/models.py 16, 25-33: every registered user has first_login true
\* (the column default) and no known device; nobody is logging in
AccountsInit ==
    /\ first_login = [u \in Users |-> TRUE]
    /\ known_device = <<>>
    /\ logins = <<>>
    /\ alerts = <<>>
    /\ alert_runs = <<>>

\* notifications/models.py 6-34: no thread exists and no request of the
\* notification API has been made
ApiIdle ==
    /\ threads = {}
    /\ thread_subscription = <<>>
    /\ subscribes = <<>>
    /\ markread = <<>>
    /\ last_patch = [by |-> 0, target |-> 0, status |-> 0]

\* no comment has been posted: the notification table and the broker are
\* empty
FanoutIdle ==
    /\ comments = {}
    /\ notifications = <<>>
    /\ request = Idle
    /\ nextId = 1
    /\ tasks = <<>>
    /\ faults = 0
    /\ inserted = <<>>
    /\ log = <<>>

Init ==
    /\ subscriptions \in SUBSET Users
    /\ \E P \in SUBSET Users :
          /\ preferences \in [P -> PrefChoices]
          /\ ChannelsOf(preferences, P) <= MaxChannels
    /\ FanoutIdle
    /\ AccountsInit
    /\ ApiIdle

\* ------------------------------------------------------------ helpers
Range(s) == {s[k] : k \in DOMAIN s}

\* all orders in which the database may return a set of rows
Perms(S) == {s \in [1..Cardinality(S) -> S] : Range(s) = S}

\* a table stored as a function id -> row, with the rows of g written over f
Merge(f, g) == [k \in (DOMAIN f) \cup (DOMAIN g) |->
                    IF k \in DOMAIN g THEN g[k] ELSE f[k]]

\* the Notification built without the "pending" marker of the email channel
BuildNotification_NoEmailMarker(user, comment, pref) ==
    [recipient |-> user,
     comment |-> comment,
     in_app_status |-> pref.in_app,
     email_status |-> FALSE,
     sms_status |-> FALSE,
     is_read |-> FALSE,
     email_task_id |-> Null,
     sms_task_id |-> IF pref.sms THEN Pending ELSE Null]

\* the Notification built with the in-app channel always on
BuildNotification_InAppAlways(user, comment, pref) ==
    [recipient |-> user,
     comment |-> comment,
     in_app_status |-> TRUE,
     email_status |-> FALSE,
     sms_status |-> FALSE,
     is_read |-> FALSE,
     email_task_id |-> IF pref.email THEN Pending ELSE Null,
     sms_task_id |-> IF pref.sms THEN Pending ELSE Null]

\* services.py 48-68: the Notification built for one subscriber
BuildNotification(user, comment, pref) ==
    [recipient |-> user,
     comment |-> comment,
     in_app_status |-> pref.in_app,
     email_status |-> FALSE,
     sms_status |-> FALSE,
     is_read |-> FALSE,
     email_task_id |-> IF pref.email THEN Pending ELSE Null,
     sms_task_id |-> IF pref.sms THEN Pending ELSE Null]

\* the audience without the exclusion of the author
Audience_WithAuthor(author) ==
    {u \in subscriptions : u \in DOMAIN preferences}

\* the audience without the subscribers that have every channel disabled
Audience_EnabledOnly(author) ==
    {u \in subscriptions \ {author} :
        /\ u \in DOMAIN preferences
        /\ (preferences[u].in_app \/ preferences[u].email \/ preferences[u].sms)}

\* services.py 25-43: subscribers of the thread other than the author that
\* have a preference record
Audience(author) ==
    {u \in subscriptions \ {author} : u \in DOMAIN preferences}

\* rows of one fan-out among the rows ever inserted
InsertedFor(c) == {d \in DOMAIN inserted : inserted[d].comment = c}

\* ------------------------------------------------ the comment request
\* trigger_views.py 90-92, serializers.py 43-54: POST /comment inside the
\* request transaction (ATOMIC_REQUESTS); the comment row is inserted and
\* post_save calls dispatch_comment_notification (signals.py 19-21).
CommentView_post(author, c) ==
    /\ request.pc = "idle"
    /\ c \notin DOMAIN log
    /\ request' = [Idle EXCEPT !.pc = "audience", !.comment = c,
                               !.author = author]
    /\ UNCHANGED <<subscriptions, preferences, comments, notifications,
                   nextId, tasks, faults, inserted, log, accountVars, apiVars>>

\* services.py 23-68: the subscriptions of the thread without the author, in
\* the order the database returns them, their preferences, and one unsaved
\* Notification per subscriber that has a preference record.
BuiltFor(order, comment) ==
    [k \in DOMAIN order |->
        BuildNotification(order[k], comment, preferences[order[k]])]

dispatch_audience ==
    /\ request.pc = "audience"
    /\ \E order \in Perms(Audience(request.author)) :
          request' = [request EXCEPT !.pc = "bulk_create",
                                     !.built = BuiltFor(order, request.comment)]
    /\ UNCHANGED <<subscriptions, preferences, comments, notifications,
                   nextId, tasks, faults, inserted, log, accountVars, apiVars>>

\* services.py 70: bulk_create inserts the list in one statement and returns
\* the same objects with their primary keys set, in list order.
BulkCreateIds(first, n) == [k \in 1..n |-> first + k - 1]

dispatch_bulk_create ==
    /\ request.pc = "bulk_create"
    /\ LET n == Len(request.built)
           ids == BulkCreateIds(nextId, n)
           objs == [k \in 1..n |-> [id |-> ids[k], row |-> request.built[k]]]
           rows == [d \in Range(ids) |->
                       request.built[CHOOSE k \in 1..n : ids[k] = d]]
       IN /\ request' = [request EXCEPT
                 !.pc = IF n = 0 THEN "backfill_email" ELSE "loop_email",
                 !.i = IF n = 0 THEN 0 ELSE 1,
                 !.created = objs,
                 !.rows = rows]
          /\ inserted' = Merge(inserted, rows)
          /\ nextId' = nextId + n
    /\ UNCHANGED <<subscriptions, preferences, comments, notifications,
                   tasks, faults, log, accountVars, apiVars>>

\* the in-memory object of a task that holds none
NoLocal ==
    [email_status |-> FALSE, sms_status |-> FALSE,
     email_task_id |-> Null, sms_task_id |-> Null]

\* a task put on the broker by .delay(); its id is its position in the broker
NewTask(kind, nid) ==
    [kind |-> kind, nid |-> nid, state |-> "queued", retries |-> 0,
     runs |-> 0, result |-> FALSE, local |-> NoLocal]

\* the email branch taken for every created object
EmailRequested_Always(obj) == TRUE

\* services.py 73-76: the email branch of the loop body for created[i];
\* task.id is set on the in-memory object only, the notification id goes to
\* the email_tasks list.
EmailRequested(obj) == obj.row.email_task_id = Pending

dispatch_loop_email ==
    /\ request.pc = "loop_email"
    /\ LET obj == request.created[request.i]
       IN IF EmailRequested(obj)
          THEN /\ tasks' = Append(tasks, NewTask("email", obj.id))
               /\ request' = [request EXCEPT
                     !.pc = "loop_sms",
                     !.created[request.i].row.email_task_id =
                                                  TaskUuid(Len(tasks) + 1),
                     !.email_tasks = Append(request.email_tasks, obj.id)]
          ELSE /\ tasks' = tasks
               /\ request' = [request EXCEPT !.pc = "loop_sms"]
    /\ UNCHANGED <<subscriptions, preferences, comments, notifications,
                   nextId, faults, inserted, log, accountVars, apiVars>>

\* services.py 78-81: the SMS branch of the loop body, then the next object
SmsRequested(obj) == obj.row.sms_task_id = Pending

dispatch_loop_sms ==
    /\ request.pc = "loop_sms"
    /\ LET obj == request.created[request.i]
           last == request.i = Len(request.created)
           nextpc == IF last THEN "backfill_email" ELSE "loop_email"
           nexti == IF last THEN request.i ELSE request.i + 1
       IN IF SmsRequested(obj)
          THEN /\ tasks' = Append(tasks, NewTask("sms", obj.id))
               /\ request' = [request EXCEPT
                     !.pc = nextpc, !.i = nexti,
                     !.created[request.i].row.sms_task_id =
                                                  TaskUuid(Len(tasks) + 1),
                     !.sms_tasks = Append(request.sms_tasks, obj.id)]
          ELSE /\ tasks' = tasks
               /\ request' = [request EXCEPT !.pc = nextpc, !.i = nexti]
    /\ UNCHANGED <<subscriptions, preferences, comments, notifications,
                   nextId, faults, inserted, log, accountVars, apiVars>>

\* services.py 83-86: one UPDATE of email_task_id for all ids of email_tasks;
\* the value is AsyncResult(email_tasks[0]).task_id.
BackfillEmail(rows, ids) ==
    [d \in DOMAIN rows |->
        IF d \in Range(ids)
        THEN [rows[d] EXCEPT !.email_task_id = AsyncResultTaskId(ids[1])]
        ELSE rows[d]]

dispatch_backfill_email ==
    /\ request.pc = "backfill_email"
    /\ request' = [request EXCEPT
          !.pc = "backfill_sms",
          !.rows = IF request.email_tasks # <<>>
                   THEN BackfillEmail(request.rows, request.email_tasks)
                   ELSE request.rows]
    /\ UNCHANGED <<subscriptions, preferences, comments, notifications,
                   nextId, tasks, faults, inserted, log, accountVars, apiVars>>

\* services.py 88-91: the same for sms_task_id
BackfillSms(rows, ids) ==
    [d \in DOMAIN rows |->
        IF d \in Range(ids)
        THEN [rows[d] EXCEPT !.sms_task_id = AsyncResultTaskId(ids[1])]
        ELSE rows[d]]

dispatch_backfill_sms ==
    /\ request.pc = "backfill_sms"
    /\ request' = [request EXCEPT
          !.pc = "returned",
          !.rows = IF request.sms_tasks # <<>>
                   THEN BackfillSms(request.rows, request.sms_tasks)
                   ELSE request.rows]
    /\ UNCHANGED <<subscriptions, preferences, comments, notifications,
                   nextId, tasks, faults, inserted, log, accountVars, apiVars>>

\* ------------------------------------------------ end of the request
\* what the end of the request does to the database: the transaction of
\* ATOMIC_REQUESTS commits when the view returns a response and the
\* connection is not marked for rollback
EndRequest(commit, fault_at) ==
    /\ comments' = IF commit THEN comments \cup {request.comment} ELSE comments
    /\ notifications' = IF commit THEN Merge(notifications, request.rows)
                        ELSE notifications
    /\ log' = Merge(log, [c \in {request.comment} |->
                            [author |-> request.author, fault_at |-> fault_at,
                             committed |-> commit]])
    /\ request' = Idle

\* trigger_views.py 93-100: the view returns 201 and the transaction commits
CommentView_post_return ==
    /\ request.pc = "returned"
    /\ EndRequest(TRUE, "none")
    /\ UNCHANGED <<subscriptions, preferences, nextId, tasks,
                   faults, inserted, accountVars, apiVars>>

\* Whether a fault raised at a point of the fan-out marks the transaction
\* for rollback.  custom_exception_handler.py 156-181 turns every exception
\* that is not an APIException into a 500 Response without set_rollback, so
\* the view returns normally and the transaction is rolled back only when
\* the failing statement itself marked the connection: bulk_create (inside
\* atomic(savepoint=False)) and QuerySet.update (mark_for_rollback_on_error)
\* do, a failing .delay() does not.
MarksRollback(pc) == pc \in {"bulk_create", "backfill_email", "backfill_sms"}

\* the points of the fan-out at which a statement that can fail is executed
CanFault ==
    \/ request.pc = "audience"
    \/ request.pc = "bulk_create" /\ request.built # <<>>
    \/ request.pc = "loop_email" /\ EmailRequested(request.created[request.i])
    \/ request.pc = "loop_sms" /\ SmsRequested(request.created[request.i])
    \/ request.pc = "backfill_email" /\ request.email_tasks # <<>>
    \/ request.pc = "backfill_sms" /\ request.sms_tasks # <<>>

\* a fault inside dispatch_comment_notification: the exception leaves
\* Model.save(), reaches the exception handler and ends the request.  A
\* failed SELECT of the audience aborts the transaction on PostgreSQL and
\* leaves it usable elsewhere, so both ends are possible there.
dispatch_fault ==
    /\ CanFault
    /\ \E commit \in BOOLEAN :
          /\ request.pc # "audience" => commit = ~MarksRollback(request.pc)
          /\ EndRequest(commit, request.pc)
    /\ UNCHANGED <<subscriptions, preferences, nextId, tasks,
                   faults, inserted, accountVars, apiVars>>

\* ------------------------------------------------ the channel senders
\* a retry policy that allows one retry too many
Autoretry_OneMore(task) ==
    IF task.retries <= MaxRetries
    THEN [task EXCEPT !.state = "queued", !.retries = task.retries + 1,
                      !.local = NoLocal]
    ELSE [task EXCEPT !.state = "failed", !.local = NoLocal]

\* notifications_tasks.py 53-58, 85-90: autoretry_for=(Exception,) with
\* max_retries=3: a faulting run is put back on the broker until the task
\* has been retried max_retries times, then the task is given up.
Autoretry(task) ==
    IF task.retries < MaxRetries
    THEN [task EXCEPT !.state = "queued", !.retries = task.retries + 1,
                      !.local = NoLocal]
    ELSE [task EXCEPT !.state = "failed", !.local = NoLocal]

\* the columns of a row that a sender holds in its in-memory object
LocalOf(row) ==
    [email_status |-> row.email_status, sms_status |-> row.sms_status,
     email_task_id |-> row.email_task_id, sms_task_id |-> row.sms_task_id]

\* a sender that catches DoesNotExist and ends its run normally
SenderGet_CatchesDoesNotExist(t) ==
    LET task == [tasks[t] EXCEPT !.runs = tasks[t].runs + 1]
    IN /\ tasks[t].state = "queued"
       /\ tasks' = [tasks EXCEPT ![t] =
             IF task.nid \in DOMAIN notifications
             THEN [task EXCEPT !.state = "running",
                               !.local = LocalOf(notifications[task.nid])]
             ELSE [task EXCEPT !.state = "done"]]
       /\ UNCHANGED <<subscriptions, preferences, comments, notifications,
                      request, nextId, faults, inserted, log, accountVars,
                      apiVars>>

\* notifications_tasks.py 74 / 105: Notification.objects.get(id=...) sees the
\* committed rows only; DoesNotExist is a fault of the run.
SenderGet(t) ==
    LET task == [tasks[t] EXCEPT !.runs = tasks[t].runs + 1]
        open == request.pc # "idle"
    IN /\ tasks[t].state = "queued"
       /\ IF task.nid \in DOMAIN notifications
          THEN /\ tasks' = [tasks EXCEPT ![t] =
                      [task EXCEPT !.state = "running",
                                   !.local = LocalOf(notifications[task.nid])]]
               /\ faults' = faults
          ELSE /\ open => faults < MaxFaults
               /\ tasks' = [tasks EXCEPT ![t] = Autoretry(task)]
               /\ faults' = IF open THEN faults + 1 ELSE faults
       /\ UNCHANGED <<subscriptions, preferences, comments, notifications,
                      request, nextId, inserted, log, accountVars, apiVars>>

send_email_notification_get(t) ==
    /\ tasks[t].kind = "email"
    /\ SenderGet(t)

send_sms_notification_get(t) ==
    /\ tasks[t].kind = "sms"
    /\ SenderGet(t)

\* save() without update_fields: every column of the in-memory object is
\* written back
EmailSave_AllFields(row, local, success) ==
    [row EXCEPT !.email_status = success, !.email_task_id = Null,
                !.sms_status = local.sms_status,
                !.sms_task_id = local.sms_task_id]

\* a sender that writes its status and leaves its task id in place
EmailSave_StatusOnly(row, local, success) ==
    [row EXCEPT !.email_status = success]

\* a sender that also marks the in-app channel when it succeeds
EmailSave_MarksInApp(row, local, success) ==
    [row EXCEPT !.email_status = success, !.email_task_id = Null,
                !.in_app_status = (row.in_app_status \/ success)]

\* notifications_tasks.py 80-82: save(update_fields=['email_status',
\* 'email_task_id']) writes these two columns of the row and no other
EmailSave(row, local, success) ==
    [row EXCEPT !.email_status = success, !.email_task_id = Null]

\* the SMS save() without update_fields
SmsSave_AllFields(row, local, success) ==
    [row EXCEPT !.sms_status = success, !.sms_task_id = Null,
                !.email_status = local.email_status,
                !.email_task_id = local.email_task_id]

\* notifications_tasks.py 110-112: the same for the SMS columns
SmsSave(row, local, success) ==
    [row EXCEPT !.sms_status = success, !.sms_task_id = Null]

\* the end of a run that reached save(): send_mock_email / send_mock_sms
\* (10-51) return True, or False when their logging raised
SenderSave(t, success, saved) ==
    /\ tasks[t].state = "running"
    /\ tasks[t].nid \in DOMAIN notifications
    /\ notifications' = [notifications EXCEPT ![tasks[t].nid] = saved]
    /\ tasks' = [tasks EXCEPT ![t] =
          [@ EXCEPT !.state = "done", !.result = success]]
    /\ UNCHANGED <<subscriptions, preferences, comments, request, nextId,
                   faults, inserted, log, accountVars, apiVars>>

send_email_notification_save(t) ==
    /\ tasks[t].kind = "email"
    /\ \E success \in BOOLEAN :
          SenderSave(t, success,
                     EmailSave(notifications[tasks[t].nid], tasks[t].local, success))

send_sms_notification_save(t) ==
    /\ tasks[t].kind = "sms"
    /\ \E success \in BOOLEAN :
          SenderSave(t, success,
                     SmsSave(notifications[tasks[t].nid], tasks[t].local, success))

\* a run that raises after its get() and before its save() took effect (the
\* database or the recipient lookup failing): nothing was written
sender_fault(t) ==
    /\ tasks[t].state = "running"
    /\ faults < MaxFaults
    /\ faults' = faults + 1
    /\ tasks' = [tasks EXCEPT ![t] = Autoretry(tasks[t])]
    /\ UNCHANGED <<subscriptions, preferences, comments, notifications,
                   request, nextId, inserted, log, accountVars, apiVars>>

\* ------------------------------------------------ specification
Next ==
    \/ \E author \in Authors, c \in CommentIds : CommentView_post(author, c)
    \/ dispatch_audience
    \/ dispatch_bulk_create
    \/ dispatch_loop_email
    \/ dispatch_loop_sms
    \/ dispatch_backfill_email
    \/ dispatch_backfill_sms
    \/ CommentView_post_return
    \/ dispatch_fault
    \/ \E t \in DOMAIN tasks : send_email_notification_get(t)
    \/ \E t \in DOMAIN tasks : send_email_notification_save(t)
    \/ \E t \in DOMAIN tasks : send_sms_notification_get(t)
    \/ \E t \in DOMAIN tasks : send_sms_notification_save(t)
    \/ \E t \in DOMAIN tasks : sender_fault(t)

Spec == Init /\ [][Next]_vars

\* the request runs to its end; a worker takes every task on the broker
RequestStep ==
    \/ dispatch_audience
    \/ dispatch_bulk_create
    \/ dispatch_loop_email
    \/ dispatch_loop_sms
    \/ dispatch_backfill_email
    \/ dispatch_backfill_sms
    \/ CommentView_post_return

WorkerStep ==
    \E t \in DOMAIN tasks :
        \/ send_email_notification_get(t)
        \/ send_email_notification_save(t)
        \/ send_sms_notification_get(t)
        \/ send_sms_notification_save(t)

\* ids a task can have: one comment enqueues one task per enabled channel
TaskIds == 1..MaxChannels

\* the liveness runs start from a thread every user is subscribed to, every
\* user having a preference record
FairInit ==
    /\ Init
    /\ subscriptions = Users
    /\ DOMAIN preferences = Users

FairSpec ==
    /\ FairInit
    /\ [][Next]_vars
    /\ WF_vars(RequestStep)
    /\ WF_vars(WorkerStep)

\* ------------------------------------------------ deleted notifications
\* models.py 51-58: recipient and comment are foreign keys with
\* on_delete=CASCADE, and admin.py registers Notification: a committed row
\* disappears when its user or comment is deleted or when an administrator
\* deletes it.  Primary keys are not reused.
Notification_delete(d) ==
    /\ d \in DOMAIN notifications
    /\ notifications' = [x \in DOMAIN notifications \ {d} |-> notifications[x]]
    /\ UNCHANGED <<subscriptions, preferences, comments, request, nextId,
                   tasks, faults, inserted, log, accountVars, apiVars>>

\* notifications_tasks.py 75-82 / 106-112 on a row deleted after get():
\* notification.recipient raises DoesNotExist, or save(update_fields=...)
\* updates no row and raises DatabaseError; the run faults and nothing is
\* written.
SenderSave_missing(t) ==
    /\ tasks[t].state = "running"
    /\ tasks[t].nid \notin DOMAIN notifications
    /\ tasks' = [tasks EXCEPT ![t] = Autoretry(tasks[t])]
    /\ UNCHANGED <<subscriptions, preferences, comments, notifications,
                   request, nextId, faults, inserted, log, accountVars,
                   apiVars>>

\* every user is subscribed and has a preference record
DeletionInit == FairInit

DeletionNext ==
    \/ Next
    \/ \E d \in DOMAIN notifications : Notification_delete(d)
    \/ \E t \in DOMAIN tasks : SenderSave_missing(t)

DeletionSpec == DeletionInit /\ [][DeletionNext]_vars

\* ------------------------------------------------ login and known devices
\* accounts/services.py 3-5: sha256 of the text ip + "_" + user_agent.  The
\* digest is kept as the text it was computed from, under a tag: two texts
\* have the same digest iff they are the same text.
get_device_fingerprint(ip, user_agent) ==
    <<"sha256", ip \o <<"_">> \o user_agent>>

\* a lookup that never finds a row
DeviceRows_None(user, fingerprint) == {}

\* serializers.py 229-231: the rows the lookup of get_or_create matches.  A
\* login sees the committed rows; its own transaction has inserted none
\* before the lookup.
DeviceRows(user, fingerprint) ==
    {k \in DOMAIN known_device :
        /\ known_device[k].user = user
        /\ known_device[k].device_fingerprint = fingerprint}

\* the fan-out tables do not change while users log in
fanoutVars == <<subscriptions, preferences, comments, notifications, request,
                nextId, tasks, faults, inserted, log>>

\* a login that has neither returned nor failed: its transaction is open
OpenLogin(l) == logins[l].pc \notin {"done", "failed"}

\* views.py 140-145, serializers.py 182-197: POST /login with credentials
\* that authenticate() accepts; it loads the user row, first_login included.
\* (Refused credentials raise a validation fault before anything is written:
\* such a request leaves no trace in any table.)
UserLoginView_post(u, ip, ua) ==
    /\ Len(logins) + 1 \in LoginIds
    /\ Cardinality({k \in DOMAIN logins : OpenLogin(k)}) < MaxOpenLogins
    /\ logins' = Append(logins,
          [user |-> u, ip |-> ip, user_agent |-> ua,
           pc |-> "get_or_create",
           first_login |-> first_login[u],
           created |-> FALSE, seen |-> FALSE, flagged |-> FALSE])
    /\ UNCHANGED <<first_login, known_device, alerts, alert_runs, fanoutVars,
                   apiVars>>

\* serializers.py 218-236: get_or_create of the device row.  No row: one is
\* inserted in the transaction of the request; one row: it is returned; more
\* than one: get() raises MultipleObjectsReturned, which the exception
\* handler turns into a 500 response.
\* seen records whether a login of this user from this (ip, user-agent) had
\* ended before the lookup.
LoginSerializer_get_or_create(l) ==
    /\ logins[l].pc = "get_or_create"
    /\ LET r == logins[l]
           n == Cardinality(DeviceRows(r.user,
                                get_device_fingerprint(r.ip, r.user_agent)))
           before == \E k \in DOMAIN logins :
                        /\ k # l
                        /\ logins[k].user = r.user
                        /\ logins[k].ip = r.ip
                        /\ logins[k].user_agent = r.user_agent
                        /\ logins[k].pc \in {"done", "failed"}
       IN logins' = [logins EXCEPT ![l] =
              [r EXCEPT !.pc = IF n > 1 THEN "failed" ELSE "alert",
                        !.created = (n = 0),
                        !.seen = before]]
    /\ UNCHANGED <<first_login, known_device, alerts, alert_runs, fanoutVars,
                   apiVars>>

\* accounts/tasks.py 10-16: a task as delay() puts it on the broker: not yet
\* run, not retried; pref, local and nid are the values of the run's local
\* variables (pref and local empty while unset), created and scheduled the
\* rows and the sender tasks the runs of the task have made so far
NewAlertRun ==
    [state |-> "queued", pc |-> "get", retries |-> 0, runs |-> 0,
     faults |-> 0, pref |-> {}, nid |-> 0, local |-> {},
     created |-> <<>>, scheduled |-> <<>>, logged |-> FALSE]

\* the alert of every newly created device row, first login or not
AlertDue_EveryNewDevice(r) == r.created

\* serializers.py 239: the condition of the unknown-device alert, on the
\* user object authenticate() loaded
AlertDue(r) == r.created /\ ~r.first_login

\* serializers.py 239-240: handle_unknown_device_async.delay(user.id,
\* device_info)
LoginSerializer_alert(l) ==
    /\ logins[l].pc = "alert"
    /\ alerts' = IF AlertDue(logins[l])
                 THEN Append(alerts,
                        [user |-> logins[l].user, ip |-> logins[l].ip,
                         user_agent |-> logins[l].user_agent, login |-> l])
                 ELSE alerts
    /\ alert_runs' = IF AlertDue(logins[l])
                     THEN Append(alert_runs, NewAlertRun)
                     ELSE alert_runs
    /\ logins' = [logins EXCEPT ![l].pc = "first_login"]
    /\ UNCHANGED <<first_login, known_device, fanoutVars, apiVars>>

\* a login that leaves the flag as it found it
FlagDue_Never(r) == FALSE

\* serializers.py 242: the flag is written when the loaded user has it set
FlagDue(r) == r.first_login

\* serializers.py 242-244: UPDATE of user.first_login in the transaction of
\* the request.  The UPDATE takes the lock of the user row and waits for a
\* transaction that has updated the row and is still open.
LoginSerializer_first_login(l) ==
    /\ logins[l].pc = "first_login"
    /\ FlagDue(logins[l]) =>
          ~\E k \in DOMAIN logins :
              /\ k # l /\ OpenLogin(k)
              /\ logins[k].user = logins[l].user
              /\ logins[k].flagged
    /\ logins' = [logins EXCEPT ![l].pc = "returned",
                                ![l].flagged = FlagDue(logins[l])]
    /\ UNCHANGED <<first_login, known_device, alerts, alert_runs, fanoutVars,
                   apiVars>>

\* views.py 147-158: the view returns 200 and the transaction of the request
\* commits the inserted device row and the flag.  last_used (models.py 33,
\* auto_now) is set when a row is saved; the time of a login is the position
\* of the login among the requests.  A row that get_or_create found is
\* returned without being saved.
UserLoginView_post_return(l) ==
    /\ logins[l].pc = "returned"
    /\ known_device' =
          IF logins[l].created
          THEN Append(known_device,
                  [user |-> logins[l].user,
                   device_fingerprint |->
                       get_device_fingerprint(logins[l].ip,
                                              logins[l].user_agent),
                   ip_address |-> logins[l].ip,
                   user_agent |-> logins[l].user_agent,
                   last_used |-> l])
          ELSE known_device
    /\ first_login' = IF logins[l].flagged
                      THEN [first_login EXCEPT ![logins[l].user] = FALSE]
                      ELSE first_login
    /\ logins' = [logins EXCEPT ![l].pc = "done"]
    /\ UNCHANGED <<alerts, alert_runs, fanoutVars, apiVars>>

\* the registration default of a NotificationPreference (models.py 39-41)
DefaultPreference == [in_app |-> TRUE, email |-> FALSE, sms |-> FALSE]

\* registered users, nobody subscribed, nothing posted
LoginInit ==
    /\ subscriptions = {}
    /\ preferences = [u \in Users |-> DefaultPreference]
    /\ FanoutIdle
    /\ AccountsInit
    /\ ApiIdle

LoginNext ==
    \/ \E u \in LoginUsers, ip \in Ips, ua \in Agents :
          UserLoginView_post(u, ip, ua)
    \/ \E l \in DOMAIN logins : LoginSerializer_get_or_create(l)
    \/ \E l \in DOMAIN logins : LoginSerializer_alert(l)
    \/ \E l \in DOMAIN logins : LoginSerializer_first_login(l)
    \/ \E l \in DOMAIN logins : UserLoginView_post_return(l)

\* logins in any interleaving
LoginSpec == LoginInit /\ [][LoginNext]_vars

\* a login request that arrives when every earlier one has ended
UserLoginView_post_sequential(u, ip, ua) ==
    /\ \A k \in DOMAIN logins : ~OpenLogin(k)
    /\ UserLoginView_post(u, ip, ua)

SeqLoginNext ==
    \/ \E u \in LoginUsers, ip \in Ips, ua \in Agents :
          UserLoginView_post_sequential(u, ip, ua)
    \/ \E l \in DOMAIN logins : LoginSerializer_get_or_create(l)
    \/ \E l \in DOMAIN logins : LoginSerializer_alert(l)
    \/ \E l \in DOMAIN logins : LoginSerializer_first_login(l)
    \/ \E l \in DOMAIN logins : UserLoginView_post_return(l)

\* logins one after the other
SeqLoginSpec == LoginInit /\ [][SeqLoginNext]_vars

\* ------------------------------------------------ mark as read
\* the mark-read requests of one behaviour, in the order they are served
MarkReadRequests == {1, 2}
\* the ids a request can name: those of rows and one that no row has
NotificationIdInputs == {1, 2, 3}
\* serializers.py 144-147: notification_ids is a list of integers with at
\* least one element
MarkReadLists ==
    {<<a>> : a \in NotificationIdInputs}
        \cup {<<a, b>> : a \in NotificationIdInputs, b \in NotificationIdInputs}

\* the ids of the list that exist, whoever owns them
ValidIds_AnyOwner(user, value) ==
    {d \in DOMAIN notifications : d \in Range(value)}

\* serializers.py 164-169: the ids of the list that are rows of the user
ValidIds(user, value) ==
    {d \in DOMAIN notifications :
        d \in Range(value) /\ notifications[d].recipient = user}

\* serializers.py 171: set(value) - valid_ids
InvalidIds(user, value) == Range(value) \ ValidIds(user, value)

\* serializers.py 188-192: UPDATE ... SET is_read = true of the rows of the
\* user whose id is in the list
MarkRead(rows, user, ids) ==
    [d \in DOMAIN rows |->
        IF d \in Range(ids) /\ rows[d].recipient = user
        THEN [rows[d] EXCEPT !.is_read = TRUE]
        ELSE rows[d]]

\* in_app_notifications.py 141-161: POST /notifications/read by an
\* authenticated user.  is_valid raises the validation fault that names the
\* invalid ids (400); otherwise save() runs the UPDATE and the view answers
\* 200.
MarkAsReadAPIView_post(user, ids) ==
    /\ Len(markread) + 1 \in MarkReadRequests
    /\ LET invalid == InvalidIds(user, ids)
       IN IF invalid # {}
          THEN /\ markread' = Append(markread,
                      [user |-> user, ids |-> ids, status |-> 400,
                       invalid |-> invalid])
               /\ notifications' = notifications
          ELSE /\ markread' = Append(markread,
                      [user |-> user, ids |-> ids, status |-> 200,
                       invalid |-> {}])
               /\ notifications' = MarkRead(notifications, user, ids)
    /\ UNCHANGED <<subscriptions, preferences, comments, request, nextId,
                   tasks, faults, inserted, log, accountVars, threads,
                   thread_subscription, subscribes, last_patch>>

\* the state a fan-out leaves when no recipient has an asynchronous channel
\* enabled: comment 1 of user 1 was posted to a thread, its request returned
\* and committed one unread row per subscriber other than the author
MarkReadInit ==
    /\ subscriptions \in SUBSET Users
    /\ preferences = [u \in Users |-> DefaultPreference]
    /\ comments = {1}
    /\ \E order \in Perms(Audience(1)) :
          /\ notifications = BuiltFor(order, 1)
          /\ inserted = BuiltFor(order, 1)
          /\ nextId = Len(order) + 1
    /\ request = Idle
    /\ tasks = <<>>
    /\ faults = 0
    /\ log = [c \in {1} |-> [author |-> 1, fault_at |-> "none",
                             committed |-> TRUE]]
    /\ AccountsInit
    /\ ApiIdle

MarkReadNext ==
    \E user \in Users, ids \in MarkReadLists : MarkAsReadAPIView_post(user, ids)

MarkReadSpec == MarkReadInit /\ [][MarkReadNext]_vars

\* ------------------------------------------------ threads and subscriptions
\* subscriptions (above) is the set of subscribers of the thread a comment is
\* posted to; thread_subscription is the table itself, one record per row, so
\* that two rows of one (thread, user) would be two records.
\* the thread-create and subscribe requests of one behaviour
SubscribeIds == {1, 2, 3}
\* the users that create threads and subscribe
Subscribers == {1, 2}
\* the primary keys a subscribe request can name
ThreadIds == {1, 2}

\* the committed rows of a pair
SubscriptionRows(t, u) ==
    {k \in DOMAIN thread_subscription :
        /\ thread_subscription[k].thread = t
        /\ thread_subscription[k].user = u}

\* a table without the constraint
UniqueViolation_NoConstraint(t, u) == FALSE

\* models.py 33: unique_together = ('thread', 'user').  An INSERT of a pair
\* that has a committed row raises IntegrityError.
UniqueViolation(t, u) == SubscriptionRows(t, u) # {}

\* the same constraint makes an INSERT wait for an open transaction that has
\* inserted the pair
InsertWaits(k) ==
    \E j \in DOMAIN subscribes :
        /\ j # k
        /\ subscribes[j].pc = "returned"
        /\ subscribes[j].thread = subscribes[k].thread
        /\ subscribes[j].user = subscribes[k].user

\* the sequence of the thread table hands out the next primary key, also to
\* a transaction that has not committed
NextThreadId ==
    1 + Cardinality({k \in DOMAIN subscribes : subscribes[k].kind = "thread"})

tableVars == <<subscriptions, preferences, comments, notifications, request,
               nextId, tasks, faults, inserted, log, accountVars, markread,
               last_patch>>

\* thread_views.py 65-80, serializers.py 66-82: POST /thread/create.  The
\* thread is inserted and get_or_create subscribes its creator, both in the
\* transaction of the request; the thread is new, so the lookup finds no row.
ThreadView_post(u) ==
    /\ Len(subscribes) + 1 \in SubscribeIds
    /\ NextThreadId \in ThreadIds
    /\ subscribes' = Append(subscribes,
          [kind |-> "thread", user |-> u, thread |-> NextThreadId,
           pc |-> "returned", existed |-> UniqueViolation(NextThreadId, u)])
    /\ UNCHANGED <<threads, thread_subscription, tableVars>>

\* thread_views.py 204-205, serializers.py 94-109: POST
\* /thread-subscription/create.  is_valid refuses a thread that does not
\* exist and a pair that has a row (400).
ThreadSubscriptionView_post(u, t) ==
    /\ Len(subscribes) + 1 \in SubscribeIds
    /\ subscribes' = Append(subscribes,
          [kind |-> "subscribe", user |-> u, thread |-> t,
           pc |-> IF t \notin threads \/ SubscriptionRows(t, u) # {}
                  THEN "rejected" ELSE "create",
           existed |-> SubscriptionRows(t, u) # {}])
    /\ UNCHANGED <<threads, thread_subscription, tableVars>>

\* serializers.py 111-122: the INSERT of the subscription.  IntegrityError
\* marks the transaction for rollback and ends the request with a 500
\* response.
ThreadSubscriptionSerializer_create(k) ==
    /\ subscribes[k].pc = "create"
    /\ ~InsertWaits(k)
    /\ subscribes' = [subscribes EXCEPT ![k].pc =
          IF UniqueViolation(subscribes[k].thread, subscribes[k].user)
          THEN "failed" ELSE "returned"]
    /\ UNCHANGED <<threads, thread_subscription, tableVars>>

\* thread_views.py 81-88, 207-214: the view returns 201 and the transaction
\* commits the rows the request inserted
ThreadView_post_return(k) ==
    /\ subscribes[k].pc = "returned"
    /\ threads' = IF subscribes[k].kind = "thread"
                  THEN threads \cup {subscribes[k].thread} ELSE threads
    /\ thread_subscription' = Append(thread_subscription,
          [thread |-> subscribes[k].thread, user |-> subscribes[k].user,
           by |-> k])
    /\ subscribes' = [subscribes EXCEPT ![k].pc = "done"]
    /\ UNCHANGED tableVars

\* registered users and no thread
ThreadInit == LoginInit

ThreadNext ==
    \/ \E u \in Subscribers : ThreadView_post(u)
    \/ \E u \in Subscribers, t \in ThreadIds : ThreadSubscriptionView_post(u, t)
    \/ \E k \in DOMAIN subscribes : ThreadSubscriptionSerializer_create(k)
    \/ \E k \in DOMAIN subscribes : ThreadView_post_return(k)

ThreadSpec == ThreadInit /\ [][ThreadNext]_vars

\* ------------------------------------------------ preference update
\* the user ids a request can carry in its URL: the users and one id that no
\* user has
PatchTargets == Users \cup {4}
\* the body of a partial update: any of the three flags, each with a value
PatchData ==
    UNION {[F -> BOOLEAN] : F \in SUBSET {"in_app", "email", "sms"}}

\* serializers.py 8-23, partial=True: the flags of the body are written, the
\* others are kept
ApplyPatch(pref, data) ==
    [in_app |-> IF "in_app" \in DOMAIN data THEN data["in_app"] ELSE pref.in_app,
     email |-> IF "email" \in DOMAIN data THEN data["email"] ELSE pref.email,
     sms |-> IF "sms" \in DOMAIN data THEN data["sms"] ELSE pref.sms]

\* notification_preference_view.py 34-48, 97-127, urls.py 11: PATCH
\* /notification-preferences/<user_id>/ by the authenticated user `by`.  The
\* record is looked up by the user_id of the URL: no such user is a 404; a
\* user without a record makes save() insert a record without a user, which
\* the database refuses (500); otherwise the record of user_id is updated.
NotificationPreferencesView_patch(by, user_id, data) ==
    /\ IF user_id \notin Users
       THEN /\ last_patch' = [by |-> by, target |-> user_id, status |-> 404]
            /\ preferences' = preferences
       ELSE IF user_id \notin DOMAIN preferences
       THEN /\ last_patch' = [by |-> by, target |-> user_id, status |-> 500]
            /\ preferences' = preferences
       ELSE /\ last_patch' = [by |-> by, target |-> user_id, status |-> 200]
            /\ preferences' = [preferences EXCEPT ![user_id] =
                                    ApplyPatch(preferences[user_id], data)]
    /\ UNCHANGED <<subscriptions, comments, notifications, request, nextId,
                   tasks, faults, inserted, log, accountVars, threads,
                   thread_subscription, subscribes, markread>>

\* users with or without a preference record, nothing else going on
PreferenceInit ==
    /\ subscriptions = {}
    /\ \E P \in SUBSET Users : preferences \in [P -> PrefChoices]
    /\ FanoutIdle
    /\ AccountsInit
    /\ ApiIdle

PreferenceNext ==
    \E by \in Users, user_id \in PatchTargets, data \in PatchData :
        NotificationPreferencesView_patch(by, user_id, data)

PreferenceSpec == PreferenceInit /\ [][PreferenceNext]_vars

\* ------------------------------------------------ the unknown-device alert
\* accounts/tasks.py 21: the fixed text of the alert
AlertMessage ==
    <<"U", "n", "k", "n", "o", "w", "n", " ", "d", "e", "v", "i",
      "c", "e", " ", "l", "o", "g", "i", "n", " ", "d", "e", "t",
      "e", "c", "t", "e", "d">>

\* the literal parts of the f-string of accounts/tasks.py 42
DeviceInfoLabel ==
    <<"\n", "\n", "D", "e", "v", "i", "c", "e", " ", "I", "n", "f",
      "o", ":", "\n", "I", "P", ":", " ">>

UserAgentLabel ==
    <<"\n", "U", "s", "e", "r", " ", "A", "g", "e", "n", "t", ":",
      " ">>

\* accounts/tasks.py 39: the length an SMS text is cut to
SmsLength == 160

\* message[:n]
Truncate(message, n) ==
    SubSeq(message, 1, IF Len(message) < n THEN Len(message) ELSE n)

\* accounts/tasks.py 42: the text with the device of the login appended
EnrichedMessage(device_info) ==
    AlertMessage \o DeviceInfoLabel \o device_info.ip
                 \o UserAgentLabel \o device_info.user_agent

\* a dispatch that hands the enriched text to the email sender
AlertEmailMessage_Enriched(device_info) == EnrichedMessage(device_info)

\* accounts/tasks.py 30-34: the text the email sender is scheduled with
AlertEmailMessage(device_info) == AlertMessage

\* accounts/tasks.py 37-40: the text the SMS sender is scheduled with
AlertSmsMessage(device_info) == Truncate(AlertMessage, SmsLength)

\* accounts/tasks.py 23-28: Notification.objects.create(recipient, message,
\* in_app_status, is_read); every other column takes its default
\* (notifications/models.py 51-61).  No task id is written.
AlertNotification(user, pref) ==
    [recipient |-> user,
     comment |-> Null,
     in_app_status |-> pref.in_app,
     email_status |-> FALSE,
     sms_status |-> FALSE,
     is_read |-> FALSE,
     message |-> AlertMessage,
     email_task_id |-> Null,
     sms_task_id |-> Null]

\* a sender task of the alert: the task of the fan-out with the text it was
\* given
AlertTask(kind, nid, message) ==
    [kind |-> kind, nid |-> nid, state |-> "queued", retries |-> 0,
     runs |-> 0, result |-> FALSE, local |-> NoLocal, message |-> message]

\* accounts/tasks.py 10-15: autoretry_for=(Exception,), max_retries=3
AlertRetry(run) ==
    IF run.retries < MaxRetries
    THEN [run EXCEPT !.state = "queued", !.pc = "get",
                     !.retries = run.retries + 1]
    ELSE [run EXCEPT !.state = "failed"]

\* a task that treats a missing user as any other fault
AlertOnMissingUser_Retried(run) == AlertRetry(run)

\* accounts/tasks.py 45-46: User.DoesNotExist is caught and logged, the run
\* ends normally
AlertOnMissingUser(run) ==
    [run EXCEPT !.state = "done", !.logged = TRUE]

\* accounts/tasks.py 18-19: a worker takes the task; User.objects.get and
\* NotificationPreference.objects.filter(user=user).first(), which is None
\* (the empty set here) when the user has no record
handle_unknown_device_async_get(a) ==
    LET run == [alert_runs[a] EXCEPT !.runs = alert_runs[a].runs + 1,
                                     !.nid = 0, !.local = {}, !.pref = {}]
        user == alerts[a].user
    IN /\ alert_runs[a].state = "queued"
       /\ alert_runs' = [alert_runs EXCEPT ![a] =
             IF user \notin DOMAIN first_login
             THEN AlertOnMissingUser(run)
             ELSE [run EXCEPT !.state = "running", !.pc = "create",
                              !.pref = IF user \in DOMAIN preferences
                                       THEN {preferences[user]} ELSE {}]]
       /\ UNCHANGED <<first_login, known_device, logins, alerts, fanoutVars,
                      apiVars>>

\* accounts/tasks.py 23-28: pref.in_app is evaluated first and raises
\* AttributeError on None; the INSERT raises IntegrityError when the user
\* has been deleted meanwhile; otherwise the row is inserted and, the worker
\* having no transaction open, committed at once
handle_unknown_device_async_create(a) ==
    LET run == alert_runs[a]
        user == alerts[a].user
    IN /\ run.state = "running"
       /\ run.pc = "create"
       /\ IF run.pref = {} \/ user \notin DOMAIN first_login
          THEN /\ alert_runs' = [alert_runs EXCEPT ![a] = AlertRetry(run)]
               /\ UNCHANGED <<notifications, nextId>>
          ELSE LET row == AlertNotification(user,
                                            CHOOSE p \in run.pref : TRUE)
               IN /\ notifications' =
                         Merge(notifications, [d \in {nextId} |-> row])
                  /\ nextId' = nextId + 1
                  /\ alert_runs' = [alert_runs EXCEPT ![a] =
                         [run EXCEPT !.pc = "email", !.nid = nextId,
                                     !.local = {row},
                                     !.created = Append(run.created, nextId)]]
       /\ UNCHANGED <<subscriptions, preferences, comments, request, tasks,
                      faults, inserted, log, first_login, known_device,
                      logins, alerts, apiVars>>

\* accounts/tasks.py 29-34: if pref.email, send_email_notification.delay
handle_unknown_device_async_email(a) ==
    LET run == alert_runs[a]
        pref == CHOOSE p \in run.pref : TRUE
    IN /\ run.state = "running"
       /\ run.pc = "email"
       /\ tasks' = IF pref.email
                   THEN Append(tasks, AlertTask("email", run.nid,
                                   AlertEmailMessage(alerts[a])))
                   ELSE tasks
       /\ alert_runs' = [alert_runs EXCEPT ![a] =
             [run EXCEPT !.pc = "sms",
                         !.scheduled = IF pref.email
                                       THEN Append(run.scheduled,
                                                   Len(tasks) + 1)
                                       ELSE run.scheduled]]
       /\ UNCHANGED <<subscriptions, preferences, comments, notifications,
                      request, nextId, faults, inserted, log, first_login,
                      known_device, logins, alerts, apiVars>>

\* accounts/tasks.py 36-40: if pref.sms, send_sms_notification.delay
handle_unknown_device_async_sms(a) ==
    LET run == alert_runs[a]
        pref == CHOOSE p \in run.pref : TRUE
    IN /\ run.state = "running"
       /\ run.pc = "sms"
       /\ tasks' = IF pref.sms
                   THEN Append(tasks, AlertTask("sms", run.nid,
                                   AlertSmsMessage(alerts[a])))
                   ELSE tasks
       /\ alert_runs' = [alert_runs EXCEPT ![a] =
             [run EXCEPT !.pc = "enrich",
                         !.scheduled = IF pref.sms
                                       THEN Append(run.scheduled,
                                                   Len(tasks) + 1)
                                       ELSE run.scheduled]]
       /\ UNCHANGED <<subscriptions, preferences, comments, notifications,
                      request, nextId, faults, inserted, log, first_login,
                      known_device, logins, alerts, apiVars>>

\* save() without update_fields: every column of the in-memory object is
\* written back
EnrichSave_AllFields(row, local, message) ==
    [local EXCEPT !.message = message]

\* accounts/tasks.py 42-43: save(update_fields=['message']) writes the
\* message column of the row and no other
EnrichSave(row, local, message) ==
    [row EXCEPT !.message = message]

\* accounts/tasks.py 42-43: the enriched text is written and the run ends;
\* on a row deleted meanwhile the save updates nothing and raises
\* DatabaseError
handle_unknown_device_async_save(a) ==
    LET run == alert_runs[a]
    IN /\ run.state = "running"
       /\ run.pc = "enrich"
       /\ IF run.nid \in DOMAIN notifications
          THEN /\ notifications' = [notifications EXCEPT ![run.nid] =
                      EnrichSave(notifications[run.nid],
                                 CHOOSE r \in run.local : TRUE,
                                 EnrichedMessage(alerts[a]))]
               /\ alert_runs' = [alert_runs EXCEPT ![a] =
                      [run EXCEPT !.state = "done", !.pc = "end"]]
          ELSE /\ notifications' = notifications
               /\ alert_runs' = [alert_runs EXCEPT ![a] = AlertRetry(run)]
       /\ UNCHANGED <<subscriptions, preferences, comments, request, nextId,
                      tasks, faults, inserted, log, first_login, known_device,
                      logins, alerts, apiVars>>

\* a statement of the run that can raise for a cause outside the program:
\* the INSERT, a delay() that is executed (the broker), the save (the
\* database)
AlertCanFault(run) ==
    /\ run.state = "running"
    /\ run.pref # {}
    /\ \/ run.pc \in {"create", "enrich"}
       \/ run.pc = "email" /\ (CHOOSE p \in run.pref : TRUE).email
       \/ run.pc = "sms" /\ (CHOOSE p \in run.pref : TRUE).sms

\* the statement raises: nothing of it took effect, what the run did before
\* stays (there is no transaction), and the scheduler retries the task
handle_unknown_device_async_fault(a) ==
    /\ AlertCanFault(alert_runs[a])
    /\ alert_runs[a].faults + 1 \in AlertFaultIds
    /\ alert_runs' = [alert_runs EXCEPT ![a] =
          AlertRetry([alert_runs[a] EXCEPT !.faults = @ + 1])]
    /\ UNCHANGED <<first_login, known_device, logins, alerts, fanoutVars,
                   apiVars>>

\* accounts/admin.py 8-9: an administrator deletes a user; the rows that
\* reference the user go with it (on_delete=CASCADE: preference,
\* notifications, known devices, subscriptions)
User_delete(u) ==
    /\ u \in DOMAIN first_login
    /\ first_login' = [x \in DOMAIN first_login \ {u} |-> first_login[x]]
    /\ preferences' = [x \in DOMAIN preferences \ {u} |-> preferences[x]]
    /\ notifications' = [d \in {x \in DOMAIN notifications :
                                  notifications[x].recipient # u} |->
                            notifications[d]]
    /\ known_device' = SelectSeq(known_device, LAMBDA r : r.user # u)
    /\ subscriptions' = subscriptions \ {u}
    /\ thread_subscription' =
           SelectSeq(thread_subscription, LAMBDA r : r.user # u)
    /\ UNCHANGED <<comments, request, nextId, tasks, faults, inserted, log,
                   logins, alerts, alert_runs, threads, subscribes, markread,
                   last_patch>>

\* the account tables after user u logged in for the first time from one
\* device and then from another one: both requests have ended, the second
\* one enqueued the alert
AlertAccounts(u, ip1, ua1, ip2, ua2) ==
    /\ first_login = [x \in Users |-> x # u]
    /\ known_device =
          <<[user |-> u, device_fingerprint |-> get_device_fingerprint(ip1, ua1),
             ip_address |-> ip1, user_agent |-> ua1, last_used |-> 1],
            [user |-> u, device_fingerprint |-> get_device_fingerprint(ip2, ua2),
             ip_address |-> ip2, user_agent |-> ua2, last_used |-> 2]>>
    /\ logins =
          <<[user |-> u, ip |-> ip1, user_agent |-> ua1, pc |-> "done",
             first_login |-> TRUE, created |-> TRUE, seen |-> FALSE,
             flagged |-> TRUE],
            [user |-> u, ip |-> ip2, user_agent |-> ua2, pc |-> "done",
             first_login |-> FALSE, created |-> TRUE, seen |-> FALSE,
             flagged |-> FALSE]>>
    /\ alerts = <<[user |-> u, ip |-> ip2, user_agent |-> ua2, login |-> 2]>>
    /\ alert_runs = <<NewAlertRun>>

\* the user the alert is about: the other users take no part, so any user
\* is a renaming of this one
AlertUsers == {1}

\* the first device of the runs that start from an enqueued alert; the
\* second one has another address
FirstDevice == [ip |-> <<"1">>, user_agent |-> <<"m">>]

\* an alert is on the broker; the user has any of the preference records, or
\* none (a user not made by the registration endpoint, or whose record an
\* administrator deleted)
AlertInit ==
    /\ subscriptions = {}
    /\ FanoutIdle
    /\ ApiIdle
    /\ \E u \in AlertUsers, ip \in Ips, ua \in Agents :
          /\ ip # FirstDevice.ip
          /\ AlertAccounts(u, FirstDevice.ip, FirstDevice.user_agent, ip, ua)
          /\ \E p \in PrefChoices :
                \/ preferences = [x \in Users |->
                                    IF x = u THEN p ELSE DefaultPreference]
                \/ preferences = [x \in Users \ {u} |-> DefaultPreference]

AlertNext ==
    \/ \E a \in DOMAIN alerts : handle_unknown_device_async_get(a)
    \/ \E a \in DOMAIN alerts : handle_unknown_device_async_create(a)
    \/ \E a \in DOMAIN alerts : handle_unknown_device_async_email(a)
    \/ \E a \in DOMAIN alerts : handle_unknown_device_async_sms(a)
    \/ \E a \in DOMAIN alerts : handle_unknown_device_async_save(a)
    \/ \E a \in DOMAIN alerts : handle_unknown_device_async_fault(a)
    \/ \E a \in DOMAIN alerts : User_delete(alerts[a].user)
    \/ \E t \in DOMAIN tasks : send_email_notification_get(t)
    \/ \E t \in DOMAIN tasks : send_email_notification_save(t)
    \/ \E t \in DOMAIN tasks : send_sms_notification_get(t)
    \/ \E t \in DOMAIN tasks : send_sms_notification_save(t)
    \/ \E t \in DOMAIN tasks : SenderSave_missing(t)

\* the alert task, its senders and the deletion of its user in any
\* interleaving; the senders fault here only on a missing row
AlertSpec == AlertInit /\ [][AlertNext]_vars

\* the writers of a notification row without faults: the alert task that
\* creates and enriches the row, the senders it schedules, and mark-read
\* requests of the recipient and of another user
WritersNext ==
    \/ \E a \in DOMAIN alerts : handle_unknown_device_async_get(a)
    \/ \E a \in DOMAIN alerts : handle_unknown_device_async_create(a)
    \/ \E a \in DOMAIN alerts : handle_unknown_device_async_email(a)
    \/ \E a \in DOMAIN alerts : handle_unknown_device_async_sms(a)
    \/ \E a \in DOMAIN alerts : handle_unknown_device_async_save(a)
    \/ \E t \in DOMAIN tasks : send_email_notification_get(t)
    \/ \E t \in DOMAIN tasks : send_email_notification_save(t)
    \/ \E t \in DOMAIN tasks : send_sms_notification_get(t)
    \/ \E t \in DOMAIN tasks : send_sms_notification_save(t)
    \/ \E user \in LoginUsers, ids \in MarkReadLists :
          MarkAsReadAPIView_post(user, ids)

WritersSpec == AlertInit /\ [][WritersNext]_vars

\* ------------------------------------------------ properties
\* the fan-out of comment c has executed its bulk_create
Created(c) ==
    \/ request.comment = c /\ request.pc \notin {"audience", "bulk_create"}
    \/ c \in DOMAIN log /\ log[c].fault_at \notin {"audience", "bulk_create"}

\* the fan-out of comment c has finished its scheduling loop
Scheduled(c) ==
    \/ request.comment = c
         /\ request.pc \in {"backfill_email", "backfill_sms", "returned"}
    \/ c \in DOMAIN log
         /\ log[c].fault_at \in {"backfill_email", "backfill_sms", "none"}

AuthorOf(c) == IF request.comment = c THEN request.author ELSE log[c].author

Started(c) == request.comment = c \/ c \in DOMAIN log

TasksFor(kind, d) ==
    {t \in DOMAIN tasks : tasks[t].kind = kind /\ tasks[t].nid = d}

\* the rows a reader of the request's connection sees once dispatch returned,
\* and the rows every connection sees
Persisted ==
    IF request.pc = "returned" THEN Merge(notifications, request.rows)
    ELSE notifications

\* C1: a fan-out inserts exactly one row for every subscriber other than the
\* author that has a preference record, no row for anybody else, and every
\* row it inserts references the comment.
C1_ExactAudience ==
    \A c \in CommentIds :
        Started(c) =>
            LET expected == {u \in Users : /\ u \in subscriptions
                                           /\ u # AuthorOf(c)
                                           /\ u \in DOMAIN preferences}
                got(u) == {d \in DOMAIN inserted :
                              /\ inserted[d].recipient = u
                              /\ inserted[d].comment = c}
            IN /\ Created(c) =>
                    \A u \in Users :
                        Cardinality(got(u)) = IF u \in expected THEN 1 ELSE 0
               /\ ~Created(c) => \A u \in Users : got(u) = {}
               /\ request.comment = c =>
                    \A d \in DOMAIN request.rows :
                        /\ request.rows[d].comment = c
                        /\ d \in DOMAIN inserted

\* the scenario of the specification: the author is subscribed and has
\* preferences, one subscriber has preferences and one has none
C1_Witness ==
    /\ request.pc = "returned"
    /\ subscriptions = Users
    /\ request.author \in DOMAIN preferences
    /\ Cardinality(DOMAIN preferences) = 2
    /\ Cardinality(DOMAIN inserted) = 1

\* C2: once the scheduling loop is over a row has one email task iff its
\* recipient's email preference is on and one SMS task iff the sms preference
\* is on; there is never more than one task per channel and row, and every
\* task belongs to a row of the fan-out (so none to the author or to a
\* skipped subscriber).
C2_TasksFollowPreferences ==
    /\ \A t \in DOMAIN tasks :
          /\ tasks[t].nid \in DOMAIN inserted
          /\ inserted[tasks[t].nid].recipient # AuthorOf(inserted[tasks[t].nid].comment)
          /\ inserted[tasks[t].nid].recipient \in subscriptions
          /\ inserted[tasks[t].nid].recipient \in DOMAIN preferences
    /\ \A d \in DOMAIN inserted :
          LET pref == preferences[inserted[d].recipient]
          IN /\ Cardinality(TasksFor("email", d)) <= (IF pref.email THEN 1 ELSE 0)
             /\ Cardinality(TasksFor("sms", d)) <= (IF pref.sms THEN 1 ELSE 0)
             /\ Scheduled(inserted[d].comment) =>
                   /\ Cardinality(TasksFor("email", d)) = (IF pref.email THEN 1 ELSE 0)
                   /\ Cardinality(TasksFor("sms", d)) = (IF pref.sms THEN 1 ELSE 0)

C2_Witness ==
    /\ request.pc = "returned"
    /\ request.author \in subscriptions
    /\ request.author \in DOMAIN preferences
    /\ preferences[request.author].email
    /\ \E d \in DOMAIN inserted :
          /\ preferences[inserted[d].recipient].email
          /\ ~preferences[inserted[d].recipient].sms
          /\ Cardinality(TasksFor("email", d)) = 1
    /\ \E d \in DOMAIN inserted :
          /\ ~preferences[inserted[d].recipient].email
          /\ TasksFor("email", d) = {}

\* the column of a row that belongs to the channel of a task
TaskIdOf(row, kind) ==
    IF kind = "email" THEN row.email_task_id ELSE row.sms_task_id

StatusOf(row, kind) ==
    IF kind = "email" THEN row.email_status ELSE row.sms_status

\* C3: every task is enqueued for a row that was already inserted, and every
\* run of a sender finds the row of its task.
C3_SenderFindsRow ==
    [][/\ \A t \in DOMAIN tasks' : tasks'[t].nid \in DOMAIN inserted
       /\ \A t \in DOMAIN tasks :
             tasks'[t].runs > tasks[t].runs =>
                 tasks[t].nid \in DOMAIN notifications]_vars

\* C4: when dispatch has returned, the persisted task id of every requested
\* channel of a row is the id of the task that was enqueued for it.
C4_OwnTaskIdPersisted ==
    request.pc = "returned" =>
        \A t \in DOMAIN tasks :
            tasks[t].nid \in DOMAIN request.rows =>
                TaskIdOf(request.rows[tasks[t].nid], tasks[t].kind) = TaskUuid(t)

\* C5: from the end of dispatch on, a row whose recipient has email enabled
\* keeps a non-null email_task_id and email_status false for as long as its
\* email sender has not completed.
C5_EmailPendingUntilSent ==
    \A d \in DOMAIN Persisted :
        LET row == Persisted[d]
        IN (/\ preferences[row.recipient].email
            /\ \A t \in TasksFor("email", d) : tasks[t].state # "done")
           => /\ row.email_task_id # Null
              /\ row.email_status = FALSE

\* the row is committed, its SMS sender has completed and its email sender
\* is in a retried run
C5_Witness ==
    \E d \in DOMAIN notifications :
        /\ preferences[notifications[d].recipient].email
        /\ \E t \in TasksFor("email", d) :
              tasks[t].state = "running" /\ tasks[t].retries >= 1
        /\ \E t \in TasksFor("sms", d) : tasks[t].state = "done"

\* C6: a fan-out in which a fault occurred leaves none of its rows in the
\* database, and the database holds all rows of a fan-out or none.
C6_FaultLeavesNoRows ==
    \A c \in DOMAIN log :
        LET kept == {d \in DOMAIN notifications : notifications[d].comment = c}
            all == {d \in DOMAIN inserted : inserted[d].comment = c}
        IN /\ log[c].fault_at # "none" => kept = {}
           /\ kept = {} \/ kept = all

\* C7: a completed run of a sender writes the status and the task id of its
\* own channel on its own row and nothing else; a faulting run writes
\* nothing.
C7_SenderFrame ==
    [][\A t \in DOMAIN tasks :
          LET a == tasks[t]
              b == tasks'[t]
          IN /\ (a.state = "running" /\ b.state = "done") =>
                  notifications' = [notifications EXCEPT ![a.nid] =
                      IF a.kind = "email"
                      THEN [@ EXCEPT !.email_status = b.result,
                                     !.email_task_id = Null]
                      ELSE [@ EXCEPT !.sms_status = b.result,
                                     !.sms_task_id = Null]]
             /\ (b.retries > a.retries \/ (b.state = "failed" /\ a.state # "failed"))
                  => notifications' = notifications]_vars

\* a sender completed after a faulting run, while the other channel of its
\* row was still pending and another row existed
C7_Witness ==
    \E t \in DOMAIN tasks :
        /\ tasks[t].state = "done" /\ tasks[t].retries >= 1
        /\ tasks[t].nid \in DOMAIN notifications
        /\ tasks[t].kind = "email"
        /\ notifications[tasks[t].nid].sms_task_id # Null
        /\ Cardinality(DOMAIN notifications) >= 2

\* C8: when the email sender and the SMS sender of one row have both
\* completed, each status holds the result of its own sender and both task
\* ids are null.
C8_NoLostWrite ==
    \A e, m \in DOMAIN tasks :
        (/\ tasks[e].kind = "email" /\ tasks[m].kind = "sms"
         /\ tasks[e].nid = tasks[m].nid
         /\ tasks[e].state = "done" /\ tasks[m].state = "done"
         /\ tasks[e].nid \in DOMAIN notifications)
        => LET row == notifications[tasks[e].nid]
           IN /\ row.email_status = tasks[e].result
              /\ row.sms_status = tasks[m].result
              /\ row.email_task_id = Null
              /\ row.sms_task_id = Null

\* both senders completed with different results, each of them having read
\* the row before the other wrote it
C8_Witness ==
    \E e, m \in DOMAIN tasks :
        /\ tasks[e].kind = "email" /\ tasks[m].kind = "sms"
        /\ tasks[e].nid = tasks[m].nid
        /\ tasks[e].state = "done" /\ tasks[m].state = "done"
        /\ tasks[e].result # tasks[m].result
        /\ tasks[e].local.sms_task_id # Null
        /\ tasks[m].local.email_task_id # Null

\* C9: a sender task is executed at most 1 + max_retries times and is then
\* given up, the status of its channel is still false then, and every task
\* on the broker eventually completes or is given up.
C9_Safety ==
    \A t \in DOMAIN tasks :
        /\ tasks[t].runs <= MaxRetries + 1
        /\ tasks[t].retries <= MaxRetries
        /\ tasks[t].state = "failed" =>
              /\ tasks[t].runs = MaxRetries + 1
              /\ tasks[t].nid \in DOMAIN notifications =>
                    StatusOf(notifications[tasks[t].nid], tasks[t].kind) = FALSE

C9_BoundedRetries ==
    /\ []C9_Safety
    /\ \A t \in TaskIds :
          [](t \in DOMAIN tasks =>
                <>(t \in DOMAIN tasks /\ tasks[t].state \in {"done", "failed"}))

\* a task was given up after faulting runs of both kinds, its row committed
C9_Witness ==
    \E t \in DOMAIN tasks :
        /\ tasks[t].state = "failed"
        /\ tasks[t].nid \in DOMAIN notifications
        /\ faults = MaxFaults
        /\ \E u \in DOMAIN tasks : u # t /\ tasks[u].state = "done"

\* C10 as stated: after the initial run and the three retries of a sender
\* have failed, the task id of its channel is null and the status false.
C10_ClearedAfterExhaustion ==
    \A t \in DOMAIN tasks :
        (tasks[t].state = "failed" /\ tasks[t].nid \in DOMAIN notifications)
        => /\ TaskIdOf(notifications[tasks[t].nid], tasks[t].kind) = Null
           /\ StatusOf(notifications[tasks[t].nid], tasks[t].kind) = FALSE

\* C10 amended: after the initial run and the three retries of a sender of a
\* comment notification have failed, the task id of its channel is not
\* cleared: it still holds the non-null value the dispatch wrote, and the
\* status is false.
C10_KeptAfterExhaustion ==
    \A t \in DOMAIN tasks :
        (tasks[t].state = "failed" /\ tasks[t].nid \in DOMAIN notifications)
        => /\ TaskIdOf(notifications[tasks[t].nid], tasks[t].kind)
                 \in {Pending} \cup {IntText(d) : d \in DOMAIN inserted}
           /\ StatusOf(notifications[tasks[t].nid], tasks[t].kind) = FALSE

C10_Witness ==
    \E t \in DOMAIN tasks :
        /\ tasks[t].state = "failed"
        /\ tasks[t].runs = MaxRetries + 1
        /\ tasks[t].nid \in DOMAIN notifications
        /\ log # <<>>
        /\ \A c \in DOMAIN log : log[c].fault_at = "none"

\* ------------------------------------------------ properties of the login
\* the alerts a login request dispatched
AlertsOf(l) == {a \in DOMAIN alerts : alerts[a].login = l}

\* the alerts dispatched for one device of one user
AlertsFor(u, ip, ua) ==
    {a \in DOMAIN alerts : /\ alerts[a].user = u
                           /\ alerts[a].ip = ip
                           /\ alerts[a].user_agent = ua}

\* the logins that have ended
EndedLogins == {l \in DOMAIN logins : ~OpenLogin(l)}

\* C11: under every interleaving of logins there is at most one known-device
\* row per (user, fingerprint) and at most one unknown-device alert per
\* device of a user.
C11_AtomicGetOrCreate ==
    \A u \in LoginUsers, ip \in Ips, ua \in Agents :
        /\ Cardinality(DeviceRows(u, get_device_fingerprint(ip, ua))) <= 1
        /\ Cardinality(AlertsFor(u, ip, ua)) <= 1

\* C12: when logins follow one another there is at most one known-device row
\* per (user, fingerprint), hence per (user, ip, user-agent): the fingerprint
\* of a row is the function of its (ip, user-agent), and two devices have the
\* same fingerprint only if they are the same device.
C12_SequentialLoginsOneRow ==
    /\ \A j, k \in DOMAIN known_device :
          (/\ known_device[j].user = known_device[k].user
           /\ known_device[j].device_fingerprint
                 = known_device[k].device_fingerprint) => j = k
    /\ \A k \in DOMAIN known_device :
          known_device[k].device_fingerprint =
              get_device_fingerprint(known_device[k].ip_address,
                                     known_device[k].user_agent)
    /\ \A i1, i2 \in Ips, a1, a2 \in Agents :
          get_device_fingerprint(i1, a1) = get_device_fingerprint(i2, a2)
              => (i1 = i2 /\ a1 = a2)
    /\ \A l \in EndedLogins :
          Cardinality(DeviceRows(logins[l].user,
              get_device_fingerprint(logins[l].ip, logins[l].user_agent))) = 1

\* three logins of one user from one device, one after the other
C12_Witness ==
    /\ Len(logins) = 3
    /\ \A l \in DOMAIN logins :
          /\ logins[l].pc = "done"
          /\ logins[l].user = logins[1].user
          /\ logins[l].ip = logins[1].ip
          /\ logins[l].user_agent = logins[1].user_agent
    /\ Len(known_device) = 1

\* C13: a login that found first_login true dispatches no alert, whether it
\* created the device row or not, and when it has ended the flag is false;
\* the flag of a user is false after any login of the user has ended, and a
\* flag that is false stays false.
C13_State ==
    \A l \in DOMAIN logins :
        /\ logins[l].first_login => AlertsOf(l) = {}
        /\ ~OpenLogin(l) => first_login[logins[l].user] = FALSE

C13_FirstLoginOnce ==
    /\ []C13_State
    /\ [][\A u \in Users : first_login[u] = FALSE => first_login'[u] = FALSE]_vars

\* two logins of a user that both found the flag set have ended, one having
\* created the device row and the other having found it
C13_Witness ==
    \E j, k \in DOMAIN logins :
        /\ j # k
        /\ logins[j].user = logins[k].user
        /\ logins[j].pc = "done" /\ logins[k].pc = "done"
        /\ logins[j].first_login /\ logins[k].first_login
        /\ logins[j].created /\ ~logins[k].created
        /\ first_login[logins[j].user] = FALSE

\* C14: a login that found first_login false dispatches exactly one alert
\* when no login of the user from the same (ip, user-agent) had ended before
\* its lookup, and none otherwise; every alert comes from a login that
\* created its device row and found first_login false.
C14_AlertOnNewDevice ==
    /\ \A l \in DOMAIN logins :
          LET r == logins[l]
          IN /\ Cardinality(AlertsOf(l)) <= 1
             /\ (r.pc \in {"first_login", "returned", "done"} /\ ~r.first_login)
                   => Cardinality(AlertsOf(l)) = (IF r.seen THEN 0 ELSE 1)
             /\ r.pc = "failed" => AlertsOf(l) = {}
    /\ \A a \in DOMAIN alerts :
          /\ logins[alerts[a].login].created
          /\ ~logins[alerts[a].login].first_login

\* after the first login of a user: a login from a new device that alerted
\* and a login from a device seen before that did not
C14_Witness ==
    \E j, k \in DOMAIN logins :
        /\ logins[j].user = logins[k].user
        /\ logins[j].pc = "done" /\ logins[k].pc = "done"
        /\ ~logins[j].first_login /\ ~logins[k].first_login
        /\ ~logins[j].seen /\ Cardinality(AlertsOf(j)) = 1
        /\ logins[k].seen /\ AlertsOf(k) = {}

\* ------------------------------------------------ properties of the API
\* C15: a mark-read request is rejected iff its list holds an id that does
\* not exist or is a row of another user; the fault names exactly those ids
\* and the request changes no row.  An accepted request sets is_read on the
\* rows it names and changes nothing else.
C15_RejectedMarkReadChangesNothing ==
    [][\A k \in DOMAIN markread' :
          k \notin DOMAIN markread =>
              LET r == markread'[k]
                  bad == {d \in Range(r.ids) :
                             \/ d \notin DOMAIN notifications
                             \/ notifications[d].recipient # r.user}
              IN /\ bad # {} => /\ r.status = 400
                                /\ r.invalid = bad
                                /\ notifications' = notifications
                 /\ bad = {} => /\ r.status = 200
                                /\ notifications' =
                                     [d \in DOMAIN notifications |->
                                        IF d \in Range(r.ids)
                                        THEN [notifications[d] EXCEPT
                                                 !.is_read = TRUE]
                                        ELSE notifications[d]]]_vars

\* a request that named a row of its user together with a row of another
\* user was rejected, both rows still unread
C15_Witness ==
    \E k \in DOMAIN markread :
        /\ markread[k].status = 400
        /\ Cardinality(markread[k].invalid) = 1
        /\ \E d \in Range(markread[k].ids) :
              /\ d \in DOMAIN notifications
              /\ notifications[d].recipient = markread[k].user
              /\ ~notifications[d].is_read
        /\ \E d \in markread[k].invalid :
              /\ d \in DOMAIN notifications
              /\ ~notifications[d].is_read

\* C16: under every interleaving of thread creations and subscribe requests
\* the table holds at most one row per (thread, user); a subscribe request
\* for a pair that had a row when it arrived is rejected, and a request that
\* is rejected or fails adds no row and changes no table.
C16_State ==
    /\ \A j, k \in DOMAIN thread_subscription :
          (/\ thread_subscription[j].thread = thread_subscription[k].thread
           /\ thread_subscription[j].user = thread_subscription[k].user)
              => j = k
    /\ \A k \in DOMAIN subscribes :
          /\ subscribes[k].existed => subscribes[k].pc = "rejected"
          /\ subscribes[k].pc \in {"rejected", "failed"} =>
                \A j \in DOMAIN thread_subscription :
                    thread_subscription[j].by # k
          /\ subscribes[k].pc = "done" =>
                \E j \in DOMAIN thread_subscription :
                    /\ thread_subscription[j].by = k
                    /\ thread_subscription[j].thread = subscribes[k].thread
                    /\ thread_subscription[j].user = subscribes[k].user

C16_OneSubscriptionPerPair ==
    /\ []C16_State
    /\ [][\A k \in DOMAIN subscribes' :
             (/\ subscribes'[k].pc \in {"rejected", "failed"}
              /\ (k \in DOMAIN subscribes => subscribes'[k] # subscribes[k]))
                 => /\ thread_subscription' = thread_subscription
                    /\ threads' = threads]_vars

\* a thread was created, two requests subscribed one other user to it at the
\* same time and one of them failed on the constraint; a third request for
\* the pair would find the row
C16_Witness ==
    \E j, k \in DOMAIN subscribes :
        /\ subscribes[j].kind = "subscribe" /\ subscribes[k].kind = "subscribe"
        /\ subscribes[j].pc = "done" /\ subscribes[k].pc = "failed"
        /\ subscribes[j].thread = subscribes[k].thread
        /\ subscribes[j].user = subscribes[k].user
        /\ Cardinality(SubscriptionRows(subscribes[j].thread,
                                        subscribes[j].user)) = 1
        /\ Len(thread_subscription) = 2

\* C17: a preference update request changes the preference record of no user
\* other than the user that made it.
C17_OnlyOwnerMutates ==
    [][\A v \in DOMAIN preferences :
          preferences'[v] # preferences[v] => last_patch'.by = v]_vars

\* ------------------------------------------------ properties of the rows
\* a preference record with the three channels disabled
AllDisabled(u) ==
    /\ u \in DOMAIN preferences
    /\ ~preferences[u].in_app /\ ~preferences[u].email /\ ~preferences[u].sms

\* the rows a fan-out inserted for a user
RowsOf(c, u) ==
    {d \in DOMAIN inserted :
        inserted[d].comment = c /\ inserted[d].recipient = u}

\* C18: a subscriber other than the author whose preference record has the
\* three channels disabled gets a row from the fan-out; the row has
\* in_app_status, email_status and sms_status false when it is inserted and
\* for as long as it exists, and no sender task is ever enqueued for it.
C18_DisabledSubscriberGetsRow ==
    \A c \in CommentIds :
        Created(c) =>
            \A u \in subscriptions \ {AuthorOf(c)} :
                AllDisabled(u) =>
                    /\ RowsOf(c, u) # {}
                    /\ \A d \in RowsOf(c, u) :
                          /\ ~inserted[d].in_app_status
                          /\ ~inserted[d].email_status
                          /\ ~inserted[d].sms_status
                          /\ TasksFor("email", d) = {}
                          /\ TasksFor("sms", d) = {}
                          /\ d \in DOMAIN Persisted =>
                                /\ ~Persisted[d].in_app_status
                                /\ ~Persisted[d].email_status
                                /\ ~Persisted[d].sms_status

\* the fan-out was committed with a row for a subscriber that has everything
\* disabled, next to a row whose sender has run
C18_Witness ==
    \E d, x \in DOMAIN notifications :
        /\ AllDisabled(notifications[d].recipient)
        /\ ~notifications[d].in_app_status
        /\ \E t \in DOMAIN tasks : tasks[t].nid = x /\ tasks[t].state = "done"
        /\ log # <<>>

\* C19 as stated: a subscriber with the three channels disabled gets no row
\* from a fan-out.
C19_DisabledSubscriberExcluded ==
    \A c \in CommentIds :
        Started(c) => \A u \in subscriptions : AllDisabled(u) => RowsOf(c, u) = {}

\* C19 amended: only a subscriber without a preference record is excluded
\* from a fan-out; a subscriber other than the author with a preference
\* record gets exactly one row, also when the record disables every channel.
C19_OnlyRecordlessExcluded ==
    \A c \in CommentIds :
        Created(c) =>
            \A u \in subscriptions \ {AuthorOf(c)} :
                /\ u \notin DOMAIN preferences => RowsOf(c, u) = {}
                /\ u \in DOMAIN preferences => Cardinality(RowsOf(c, u)) = 1
                /\ AllDisabled(u) => Cardinality(RowsOf(c, u)) = 1

\* one subscriber without a record and one with everything disabled: the
\* fan-out returned with a row for the second only
C19_Witness ==
    /\ request.pc = "returned"
    /\ \E u, v \in subscriptions \ {request.author} :
          /\ u \notin DOMAIN preferences
          /\ AllDisabled(v)
          /\ RowsOf(request.comment, u) = {}
          /\ Cardinality(RowsOf(request.comment, v)) = 1

\* C20: a row of a fan-out is inserted with in_app_status equal to the in_app
\* preference of its recipient, email_status, sms_status and is_read false,
\* and each task-id column non-null iff the preference of its channel is
\* enabled; no step of a sender changes in_app_status.
C20_State ==
    \A d \in DOMAIN inserted :
        LET row == inserted[d]
            pref == preferences[row.recipient]
        IN /\ row.in_app_status = pref.in_app
           /\ row.email_status = FALSE
           /\ row.sms_status = FALSE
           /\ row.is_read = FALSE
           /\ (row.email_task_id # Null) = pref.email
           /\ (row.sms_task_id # Null) = pref.sms
           /\ d \in DOMAIN Persisted =>
                 Persisted[d].in_app_status = pref.in_app

C20_InitialRow ==
    /\ []C20_State
    /\ [][\A d \in DOMAIN notifications :
             /\ d \in DOMAIN notifications'
             /\ notifications'[d].in_app_status = notifications[d].in_app_status
             /\ notifications'[d].is_read = notifications[d].is_read]_vars

\* a committed row with the in-app channel off and both asynchronous
\* channels on, whose email sender has succeeded
C20_Witness ==
    \E d \in DOMAIN notifications :
        /\ ~notifications[d].in_app_status
        /\ preferences[notifications[d].recipient].sms
        /\ notifications[d].email_status
        /\ \E t \in TasksFor("email", d) : tasks[t].state = "done"

\* ------------------------------------------------ properties of the backfill
\* C24: when dispatch has returned, every email-requested row of the batch
\* holds one and the same email_task_id, and that value is the id of the
\* email task enqueued for the first of them; likewise for sms_task_id.
C24_BackfillFirstTaskId ==
    request.pc = "returned" =>
        /\ \A d \in Range(request.email_tasks) :
              \E t \in TasksFor("email", request.email_tasks[1]) :
                  request.rows[d].email_task_id = TaskUuid(t)
        /\ \A d \in Range(request.sms_tasks) :
              \E t \in TasksFor("sms", request.sms_tasks[1]) :
                  request.rows[d].sms_task_id = TaskUuid(t)

\* C27: a row whose sender of a channel has completed has a null task id of
\* that channel in every state from then on, and no row has a channel status
\* of true together with a non-null task id of the channel.
C27_ClearedStaysCleared ==
    /\ \A t \in DOMAIN tasks :
          (tasks[t].state = "done" /\ tasks[t].nid \in DOMAIN Persisted)
              => TaskIdOf(Persisted[tasks[t].nid], tasks[t].kind) = Null
    /\ \A d \in DOMAIN Persisted :
          /\ Persisted[d].email_status => Persisted[d].email_task_id = Null
          /\ Persisted[d].sms_status => Persisted[d].sms_task_id = Null

\* the backfill was committed, the email sender of a row has succeeded and
\* the SMS channel of the row still holds the backfilled value
C27_Witness ==
    \E t \in DOMAIN tasks :
        /\ tasks[t].kind = "email" /\ tasks[t].state = "done"
        /\ tasks[t].nid \in DOMAIN notifications
        /\ notifications[tasks[t].nid].email_status
        /\ notifications[tasks[t].nid].sms_task_id
              \in {IntText(d) : d \in DOMAIN inserted}
        /\ \A c \in DOMAIN log : log[c].fault_at = "none"

\* C28: when a fan-out has ended, every sender task it enqueued refers to a
\* committed row.
C28_NoOrphanTask ==
    \A t \in DOMAIN tasks :
        (tasks[t].nid \in DOMAIN inserted
            /\ inserted[tasks[t].nid].comment \in DOMAIN log)
        => tasks[t].nid \in DOMAIN notifications

\* ------------------------------------------------ properties of last_used
\* C25: a login from a device already known for the user leaves the
\* known-device rows as they are, except that last_used of the matching row
\* becomes the time of that login.
C25_KnownLoginTouchesLastUsed ==
    [][\A l \in DOMAIN logins :
          (/\ logins[l].pc = "returned" /\ logins'[l].pc = "done"
           /\ ~logins[l].created)
          => /\ DOMAIN known_device' = DOMAIN known_device
             /\ \A k \in DOMAIN known_device :
                   IF k \in DeviceRows(logins[l].user,
                              get_device_fingerprint(logins[l].ip,
                                                     logins[l].user_agent))
                   THEN known_device'[k] =
                            [known_device[k] EXCEPT !.last_used = l]
                   ELSE known_device'[k] = known_device[k]]_vars

\* ------------------------------------------------ properties of deleted rows
\* a committed row that is no longer in the table
Deleted(d) ==
    /\ d \in DOMAIN inserted
    /\ inserted[d].comment \in DOMAIN log
    /\ log[inserted[d].comment].committed
    /\ d \notin DOMAIN notifications

\* C21: a row that was deleted stays deleted; every run of a sender on a
\* deleted row faults and is retried while the task has been retried fewer
\* than max_retries times, then given up; such a run leaves the table as it
\* is; no task is retried more than max_retries times.
C21_DeletedRowFaults ==
    /\ [][\A d \in DOMAIN inserted : Deleted(d) => Deleted(d)']_vars
    /\ [][\A t \in DOMAIN tasks :
             (/\ Deleted(tasks[t].nid)
              /\ tasks[t].state = "queued"
              /\ tasks'[t] # tasks[t])
             => /\ notifications' = notifications
                /\ tasks'[t].runs = tasks[t].runs + 1
                /\ tasks'[t].state =
                       IF tasks[t].retries < MaxRetries THEN "queued" ELSE "failed"
                /\ tasks'[t].retries =
                       IF tasks[t].retries < MaxRetries THEN tasks[t].retries + 1
                       ELSE tasks[t].retries]_vars
    /\ [](\A t \in DOMAIN tasks :
             /\ tasks[t].retries <= MaxRetries
             /\ tasks[t].runs <= MaxRetries + 1
             /\ tasks[t].state = "failed" => tasks[t].runs = MaxRetries + 1)

\* a task given up after four runs, none of them a fault of the request or
\* of the worker, on a row that was deleted
C21_Witness ==
    \E t \in DOMAIN tasks :
        /\ Deleted(tasks[t].nid)
        /\ tasks[t].state = "failed"
        /\ tasks[t].runs = MaxRetries + 1
        /\ tasks[t].retries = MaxRetries
        /\ faults = 0

\* ------------------------------------------------ properties of the alert
\* sub occurs in message
Contains(message, sub) ==
    \E i \in 0..(Len(message) - Len(sub)) :
        SubSeq(message, i + 1, i + Len(sub)) = sub

\* the device part of the enriched text
DeviceDetails(device_info) ==
    DeviceInfoLabel \o device_info.ip \o UserAgentLabel
                    \o device_info.user_agent

\* the sender tasks of a kind that the runs of alert a scheduled
AlertSenders(a, kind) ==
    {t \in Range(alert_runs[a].scheduled) : tasks[t].kind = kind}

\* C22: every sender the alert schedules is given the fixed text, which does
\* not contain the device details; a row is enriched only by the run that
\* created it, in its last step, when a sender of every enabled channel has
\* been scheduled for the row, and no sender is scheduled for an enriched
\* row; the row of a run that ended normally carries the device details.
C22_EnrichedAfterScheduling ==
    /\ [](\A a \in DOMAIN alerts : \A t \in Range(alert_runs[a].scheduled) :
             /\ tasks[t].message = AlertMessage
             /\ ~Contains(tasks[t].message, DeviceDetails(alerts[a])))
    /\ [](\A a \in DOMAIN alerts :
             (/\ alert_runs[a].state = "done"
              /\ alert_runs[a].nid \in DOMAIN notifications)
             => /\ notifications[alert_runs[a].nid].message =
                       EnrichedMessage(alerts[a])
                /\ Contains(notifications[alert_runs[a].nid].message,
                            DeviceDetails(alerts[a])))
    /\ [][\A d \in DOMAIN notifications \cap DOMAIN notifications' :
             notifications'[d].message # notifications[d].message
             => \E a \in DOMAIN alerts :
                   LET run == alert_runs[a]
                       pref == CHOOSE p \in run.pref : TRUE
                   IN /\ run.nid = d
                      /\ run.state = "running"
                      /\ alert_runs'[a].state = "done"
                      /\ tasks' = tasks
                      /\ pref.email =>
                            \E t \in AlertSenders(a, "email") : tasks[t].nid = d
                      /\ pref.sms =>
                            \E t \in AlertSenders(a, "sms") : tasks[t].nid = d]_vars
    /\ [][\A t \in DOMAIN tasks' \ DOMAIN tasks :
             tasks'[t].nid \in DOMAIN notifications
             => notifications[tasks'[t].nid].message = AlertMessage]_vars

\* a run without a fault that scheduled both senders and wrote the enriched
\* text
C22_Witness ==
    \E a \in DOMAIN alerts :
        /\ alert_runs[a].state = "done"
        /\ alert_runs[a].runs = 1
        /\ alert_runs[a].nid \in DOMAIN notifications
        /\ notifications[alert_runs[a].nid].message # AlertMessage
        /\ AlertSenders(a, "email") # {}
        /\ AlertSenders(a, "sms") # {}

\* C23: the alert of a user without a preference record creates no row,
\* schedules nothing and is not retried; the row of a user with a record
\* takes in_app_status from it, the run schedules one sender per enabled
\* channel, and the row carries the id of each scheduled task until the
\* sender has written its result.
C23_OneRecipientFanOut ==
    \A a \in DOMAIN alerts :
        LET run == alert_runs[a]
            user == alerts[a].user
        IN /\ (/\ user \in DOMAIN first_login
               /\ user \notin DOMAIN preferences
               /\ run.faults = 0)
              => /\ run.retries = 0
                 /\ run.state # "failed"
                 /\ run.created = <<>>
                 /\ run.scheduled = <<>>
           /\ \A d \in Range(run.created) \cap DOMAIN notifications :
                 /\ user \in DOMAIN preferences =>
                       notifications[d].in_app_status = preferences[user].in_app
                 /\ \A t \in Range(run.scheduled) :
                       (tasks[t].nid = d /\ tasks[t].state = "queued"
                            /\ tasks[t].runs = 0)
                       => TaskIdOf(notifications[d], tasks[t].kind) = TaskUuid(t)

\* C29: the runs of one alert task create at most one row and schedule at
\* most one sender per channel.
C29_OneRowPerAlert ==
    \A a \in DOMAIN alerts :
        /\ Len(alert_runs[a].created) <= 1
        /\ Cardinality(AlertSenders(a, "email")) <= 1
        /\ Cardinality(AlertSenders(a, "sms")) <= 1

\* C30: a run that finds no user ends the task normally with the error
\* logged, creates no row, schedules no sender and is not counted as a
\* retry, and an ended task does nothing more; a run on a user without a
\* preference record never ends normally; a run that does not end normally
\* is retried while the task has been retried fewer than max_retries times
\* and then given up.
C30_MissingUserEndsOtherFaultsRetry ==
    /\ [][\A a \in DOMAIN alerts :
             (/\ alert_runs[a].state = "queued"
              /\ alerts[a].user \notin DOMAIN first_login
              /\ alert_runs'[a] # alert_runs[a])
             => /\ alert_runs'[a].state = "done"
                /\ alert_runs'[a].logged
                /\ alert_runs'[a].retries = alert_runs[a].retries
                /\ alert_runs'[a].created = alert_runs[a].created
                /\ alert_runs'[a].scheduled = alert_runs[a].scheduled
                /\ notifications' = notifications
                /\ tasks' = tasks]_vars
    /\ [][\A a \in DOMAIN alerts :
             alert_runs[a].state \in {"done", "failed"}
             => alert_runs'[a] = alert_runs[a]]_vars
    /\ [][\A a \in DOMAIN alerts :
             (/\ alert_runs[a].state = "running"
              /\ alert_runs[a].pref = {}
              /\ alert_runs'[a] # alert_runs[a])
             => alert_runs'[a].state \in {"queued", "failed"}]_vars
    /\ [][\A a \in DOMAIN alerts :
             (/\ alert_runs[a].state = "running"
              /\ alert_runs'[a].state \notin {"running", "done"})
             => IF alert_runs[a].retries < MaxRetries
                THEN /\ alert_runs'[a].state = "queued"
                     /\ alert_runs'[a].retries = alert_runs[a].retries + 1
                ELSE /\ alert_runs'[a].state = "failed"
                     /\ alert_runs'[a].retries = alert_runs[a].retries]_vars
    /\ [](\A a \in DOMAIN alerts :
             /\ alert_runs[a].retries <= MaxRetries
             /\ alert_runs[a].runs <= MaxRetries + 1
             /\ alert_runs[a].logged => alert_runs[a].state = "done")

\* a task retried three times for a missing preference record whose user
\* was deleted before the last run
C30_Witness ==
    \E a \in DOMAIN alerts :
        /\ alert_runs[a].state = "done"
        /\ alert_runs[a].logged
        /\ alert_runs[a].retries = MaxRetries
        /\ alert_runs[a].runs = MaxRetries + 1
        /\ alert_runs[a].faults = 0
        /\ alert_runs[a].created = <<>>
        /\ tasks = <<>>
        /\ notifications = <<>>

\* ------------------------------------------------ properties of the writers
\* the mark-read request served by this step, when there is one
Served == markread'[Len(markread')]

\* C26: a step changes is_read of a row only when it serves a mark-read
\* request of the recipient that lists the row, message only when it is the
\* enrichment of the row, a channel's status and task id only when it ends a
\* run of a sender of that channel on the row, and every such step changes
\* nothing else of the row; the other columns never change; each writer's
\* value is in the row after its step; is_read never returns to false; when
\* every writer has ended the row holds what each of them wrote.
C26_WritersDisjoint ==
    /\ [][\A d \in DOMAIN notifications \cap DOMAIN notifications' :
             LET row == notifications[d]
                 new == notifications'[d]
             IN /\ new.recipient = row.recipient
                /\ new.comment = row.comment
                /\ new.in_app_status = row.in_app_status
                /\ row.is_read => new.is_read
                /\ new.is_read # row.is_read
                   => /\ markread' # markread
                      /\ Served.status = 200
                      /\ Served.user = row.recipient
                      /\ d \in Range(Served.ids)
                      /\ new = [row EXCEPT !.is_read = TRUE]
                /\ new.message # row.message
                   => \E a \in DOMAIN alerts :
                         /\ alert_runs[a].nid = d
                         /\ alert_runs'[a].state = "done"
                         /\ new = [row EXCEPT !.message =
                                       EnrichedMessage(alerts[a])]
                /\ \A kind \in {"email", "sms"} :
                      (\/ StatusOf(new, kind) # StatusOf(row, kind)
                       \/ TaskIdOf(new, kind) # TaskIdOf(row, kind))
                      => \E t \in DOMAIN tasks :
                            /\ tasks[t].kind = kind
                            /\ tasks[t].nid = d
                            /\ tasks[t].state = "running"
                            /\ tasks'[t].state = "done"
                            /\ new.is_read = row.is_read
                            /\ new.message = row.message
                            /\ \A other \in {"email", "sms"} \ {kind} :
                                  /\ StatusOf(new, other) = StatusOf(row, other)
                                  /\ TaskIdOf(new, other) = TaskIdOf(row, other)]_vars
    /\ [][/\ \A t \in DOMAIN tasks :
                (tasks[t].state = "running" /\ tasks'[t].state = "done")
                => /\ StatusOf(notifications'[tasks[t].nid], tasks[t].kind)
                          = tasks'[t].result
                   /\ TaskIdOf(notifications'[tasks[t].nid], tasks[t].kind)
                          = Null
          /\ (markread' # markread /\ Served.status = 200)
                => \A d \in Range(Served.ids) : notifications'[d].is_read]_vars
    /\ [](\A a \in DOMAIN alerts :
             LET d == alert_runs[a].nid
             IN (/\ alert_runs[a].state = "done"
                 /\ d \in DOMAIN notifications
                 /\ \A t \in Range(alert_runs[a].scheduled) :
                       tasks[t].state = "done")
                => /\ notifications[d].message = EnrichedMessage(alerts[a])
                   /\ \A t \in Range(alert_runs[a].scheduled) :
                         /\ StatusOf(notifications[d], tasks[t].kind)
                                = tasks[t].result
                         /\ TaskIdOf(notifications[d], tasks[t].kind) = Null
                   /\ notifications[d].is_read <=>
                         \E k \in DOMAIN markread :
                            /\ markread[k].status = 200
                            /\ markread[k].user = notifications[d].recipient
                            /\ d \in Range(markread[k].ids))

\* every writer has written the same row: it is read, enriched, and both
\* senders succeeded
C26_Witness ==
    \E a \in DOMAIN alerts :
        LET d == alert_runs[a].nid
        IN /\ alert_runs[a].state = "done"
           /\ d \in DOMAIN notifications
           /\ notifications[d].is_read
           /\ notifications[d].message = EnrichedMessage(alerts[a])
           /\ notifications[d].email_status
           /\ notifications[d].sms_status
           /\ Len(markread) = 2
           /\ markread[1].status = 400

====
